---------------------------- MODULE Spec2Model ----------------------------
(***************************************************************************)
(* One connection of the HTTP server of src/src/listener/mod.rs: the       *)
(* reader task (read_loop), the handling units it spawns into a JoinSet,   *)
(* the bounded mpsc channel of responses and the writer task               *)
(* (start_writer), joined by handle_connection.  The request parser of     *)
(* src/src/listener/request.rs is modelled byte by byte as operators.      *)
(* Spec runs the connection on a set of input streams, WriterSpec runs the *)
(* writer alone on queues of responses, and ListenerSpec runs the listener *)
(* task of start with the connections it accepts.                          *)
(***************************************************************************)
EXTENDS Integers, Sequences, FiniteSets, TLC

(***************************************************************************)
(* Bounds of the model.                                                    *)
(***************************************************************************)
\* how many read calls on the socket may fail with an I/O error
MaxIOErrors == 1
\* the highest read call of one parse that may be the failing one
MaxFailAt == 3
\* how many malformed lines open the streams that fill the channel
MaxBadLines == 5

\* how many bytes of a response may reach the peer when its write fails
MaxCut == 1

\* how many responses the channel holds when the writer is run on its own
MaxQueued == 2

\* how many connections the listener accepts
MaxConns == 2
\* how many reads of one of the listener's connections yield a request or
\* an error
MaxParses == 1

\* mpsc::channel::<HttpResponse>(5)
Capacity == 5

(***************************************************************************)
(* Bytes and strings.  A string is a sequence of one-character strings.    *)
(***************************************************************************)
SP == " "
CR == "\r"
LF == "\n"
CRLF == <<CR, LF>>

UpperChars ==
  <<"A","B","C","D","E","F","G","H","I","J","K","L","M",
    "N","O","P","Q","R","S","T","U","V","W","X","Y","Z">>
LowerChars ==
  <<"a","b","c","d","e","f","g","h","i","j","k","l","m",
    "n","o","p","q","r","s","t","u","v","w","x","y","z">>
Digits == <<"0","1","2","3","4","5","6","7","8","9">>

\* F on the value of v, which is evaluated once (a LET definition or an
\* operator argument is evaluated again at every use)
Bind(v, F(_)) == CHOOSE r \in {F(x) : x \in {v}} : TRUE

\* char::is_whitespace, on the bytes the streams use
is_whitespace(c) == c \in {" ", "\t", "\r", "\n"}

\* char::to_lowercase on ASCII
to_lowercase_char(c) ==
  IF \E i \in 1..26 : UpperChars[i] = c
    THEN LowerChars[CHOOSE i \in 1..26 : UpperChars[i] = c]
    ELSE c

\* str::to_lowercase
RECURSIVE to_lowercase(_)
to_lowercase(str) ==
  Bind(str, LAMBDA s :
    IF s = <<>> THEN <<>>
    ELSE <<to_lowercase_char(Head(s))>> \o to_lowercase(Tail(s)))

\* str::eq_ignore_ascii_case
eq_ignore_ascii_case(a, b) == to_lowercase(a) = to_lowercase(b)

\* str::trim_end
RECURSIVE trim_end(_)
trim_end(str) ==
  Bind(str, LAMBDA s :
    IF s # <<>> /\ is_whitespace(s[Len(s)])
      THEN trim_end(SubSeq(s, 1, Len(s) - 1))
      ELSE s)

\* str::trim_start
RECURSIVE trim_start(_)
trim_start(str) ==
  Bind(str, LAMBDA s :
    IF s # <<>> /\ is_whitespace(s[1]) THEN trim_start(Tail(s)) ELSE s)

\* str::trim
trim(s) == trim_start(trim_end(s))

\* the index of the first c in s at or after index i, 0 when there is none
RECURSIVE find(_, _, _)
find(s, c, i) ==
  IF i > Len(s) THEN 0 ELSE IF s[i] = c THEN i ELSE find(s, c, i + 1)

\* str::split_once: the text before and after the first occurrence of c
split_once(str, c) ==
  Bind(str, LAMBDA s :
    Bind(find(s, c, 1), LAMBDA i :
      IF i # 0
        THEN [found |-> TRUE, left |-> SubSeq(s, 1, i - 1),
              right |-> SubSeq(s, i + 1, Len(s))]
        ELSE [found |-> FALSE, left |-> s, right |-> <<>>]))

\* str::starts_with
starts_with(s, p) == Len(s) >= Len(p) /\ SubSeq(s, 1, Len(p)) = p

DigitValue(c) == (CHOOSE i \in 1..10 : Digits[i] = c) - 1
IsDigit(c) == \E i \in 1..10 : Digits[i] = c

RECURSIVE DigitsValue(_)
DigitsValue(str) ==
  Bind(str, LAMBDA s :
    IF s = <<>> THEN 0
    ELSE 10 * DigitsValue(SubSeq(s, 1, Len(s) - 1)) + DigitValue(s[Len(s)]))

\* str::parse::<usize>: an optional '+', then one or more decimal digits
\* (the streams of the model hold at most two digits: no overflow case)
parse_usize(str) ==
  Bind(str, LAMBDA s :
    Bind(IF s # <<>> /\ s[1] = "+" THEN Tail(s) ELSE s, LAMBDA d :
      IF d # <<>> /\ \A i \in 1..Len(d) : IsDigit(d[i])
        THEN [ok |-> TRUE, value |-> DigitsValue(d)]
        ELSE [ok |-> FALSE, value |-> 0]))

(***************************************************************************)
(* request.rs: the parser.  `pos` counts the bytes of the input stream     *)
(* consumed so far.                                                        *)
(***************************************************************************)

\* AsyncBufReadExt::read_line: the offset after the line that starts at
\* pos, its '\n' included, or the end of the stream when there is none
read_line(inp, pos) ==
  Bind(find(inp, LF, pos + 1), LAMBDA i : IF i # 0 THEN i ELSE Len(inp))

NoRequestLine == [ok |-> FALSE, method |-> <<>>, target |-> <<>>, version |-> <<>>]

\* impl FromStr for RequestLine
RequestLine_from_str(s) ==
  Bind(split_once(s, SP), LAMBDA a :
    IF a.found
      THEN Bind(split_once(a.right, SP), LAMBDA b :
             IF b.found
               THEN [ok |-> TRUE, method |-> a.left, target |-> b.left,
                     version |-> b.right]
               ELSE NoRequestLine)
      ELSE NoRequestLine)

\* impl FromStr for HttpHeader
HttpHeader_from_str(s) ==
  Bind(split_once(s, ":"), LAMBDA a :
    IF a.found
      THEN [ok |-> TRUE, key |-> to_lowercase(a.left), value |-> trim(a.right)]
      ELSE [ok |-> FALSE, key |-> <<>>, value |-> <<>>])

\* HashMap<String, Vec<String>>
NoHeaders == [k \in {} |-> <<>>]

\* headers.entry(key).or_default().push(value)
headers_push(h, key, value) ==
  IF key \in DOMAIN h
    THEN [h EXCEPT ![key] = Append(@, value)]
    ELSE h @@ (key :> <<value>>)

\* headers.get(key)
headers_get(h, key) ==
  IF key \in DOMAIN h THEN [some |-> TRUE, values |-> h[key]]
  ELSE [some |-> FALSE, values |-> <<>>]

ContentLengthKey ==
  <<"c","o","n","t","e","n","t","-","l","e","n","g","t","h">>
GET == <<"G","E","T">>

NoRequest ==
  [method |-> <<>>, target |-> <<>>, version |-> <<>>,
   headers |-> NoHeaders, body |-> <<>>]

\* the three outcomes of read: Ok(Some(request)), Ok(None), Err(_).
\* io tells where an Err came from: "socket" for a failed read call,
\* "eof" for the UnexpectedEof of read_exact, "none" for a parse error;
\* pos is the offset the reader is left at, body_at the offset after the
\* header block of a parsed request
Outcome(kind, io, pos, body_at, request) ==
  [kind |-> kind, io |-> io, pos |-> pos, body_at |-> body_at,
   request |-> request]

\* the header loop of read (request.rs 44-55); k numbers the read call,
\* failAt names the read call that fails with an I/O error (0: none)
RECURSIVE read_headers(_, _, _, _, _)
read_headers(inp, pos, headers, k, failAt) ==
  IF k = failAt
    THEN [ok |-> FALSE, io |-> "socket", pos |-> pos, headers |-> headers,
          k |-> k]
    ELSE
      Bind(read_line(inp, pos), LAMBDA e :
        Bind(SubSeq(inp, pos + 1, e), LAMBDA buffer :
          IF trim(buffer) = <<>>
            THEN [ok |-> TRUE, io |-> "none", pos |-> e, headers |-> headers,
                  k |-> k + 1]
            ELSE
              Bind(HttpHeader_from_str(buffer), LAMBDA header :
                IF ~header.ok
                  THEN [ok |-> FALSE, io |-> "none", pos |-> e,
                        headers |-> headers, k |-> k]
                  ELSE
                    Bind(headers_push(headers, header.key, header.value),
                         LAMBDA pushed :
                           read_headers(inp, e, pushed, k + 1, failAt)))))

\* the body of a request that declares `length` bytes: read_exact, which
\* fails with UnexpectedEof when the stream ends early
read_exact(inp, pos, length, k, failAt) ==
  IF ~length.ok
    THEN [ok |-> FALSE, io |-> "none", pos |-> pos, body |-> <<>>]
  ELSE IF k = failAt
    THEN [ok |-> FALSE, io |-> "socket", pos |-> pos, body |-> <<>>]
  ELSE IF pos + length.value > Len(inp)
    THEN [ok |-> FALSE, io |-> "eof", pos |-> Len(inp), body |-> <<>>]
  ELSE [ok |-> TRUE, io |-> "none", pos |-> pos + length.value,
        body |-> SubSeq(inp, pos + 1, pos + length.value)]

\* read_body taking the first content-length value instead of the last
read_body_first_value(inp, pos, method, headers, k, failAt) ==
  IF method # GET
    THEN
      Bind(headers_get(headers, ContentLengthKey), LAMBDA cl :
        IF cl.some
          THEN Bind(parse_usize(cl.values[1]), LAMBDA length :
                 read_exact(inp, pos, length, k, failAt))
          ELSE
            IF k = failAt
              THEN [ok |-> FALSE, io |-> "socket", pos |-> pos, body |-> <<>>]
              ELSE [ok |-> TRUE, io |-> "none", pos |-> Len(inp),
                    body |-> SubSeq(inp, pos + 1, Len(inp))])
    ELSE [ok |-> TRUE, io |-> "none", pos |-> pos, body |-> <<>>]

\* read_body taking a missing content-length as a length of zero
read_body_no_length_is_empty(inp, pos, method, headers, k, failAt) ==
  IF method # GET
    THEN
      Bind(headers_get(headers, ContentLengthKey), LAMBDA cl :
        IF cl.some
          THEN Bind(parse_usize(cl.values[Len(cl.values)]), LAMBDA length :
                 read_exact(inp, pos, length, k, failAt))
          ELSE [ok |-> TRUE, io |-> "none", pos |-> pos, body |-> <<>>])
    ELSE [ok |-> TRUE, io |-> "none", pos |-> pos, body |-> <<>>]

\* the body of read (request.rs 57-73); k numbers its read call
read_body(inp, pos, method, headers, k, failAt) ==
  IF method # GET
    THEN
      Bind(headers_get(headers, ContentLengthKey), LAMBDA cl :
        IF cl.some
          THEN Bind(parse_usize(cl.values[Len(cl.values)]), LAMBDA length :
                 read_exact(inp, pos, length, k, failAt))
          ELSE
            \* read_to_end
            IF k = failAt
              THEN [ok |-> FALSE, io |-> "socket", pos |-> pos, body |-> <<>>]
              ELSE [ok |-> TRUE, io |-> "none", pos |-> Len(inp),
                    body |-> SubSeq(inp, pos + 1, Len(inp))])
    ELSE [ok |-> TRUE, io |-> "none", pos |-> pos, body |-> <<>>]

\* read skipping the rest of the header block after a malformed request
\* line, so that the next parse starts after the message's blank line
read_resynchronises(inp, pos, failAt) ==
  IF failAt = 1
    THEN Outcome("Err", "socket", pos, pos, NoRequest)
    ELSE
      Bind(read_line(inp, pos), LAMBDA e :
        IF e - pos = 0
          THEN Outcome("None", "none", pos, pos, NoRequest)
          ELSE
            Bind(RequestLine_from_str(trim_end(SubSeq(inp, pos + 1, e))),
                 LAMBDA request_line :
              IF ~request_line.ok
                THEN Bind(read_headers(inp, e, NoHeaders, 2, 0), LAMBDA h :
                       Outcome("Err", "none", h.pos, h.pos, NoRequest))
                ELSE
                  Bind(read_headers(inp, e, NoHeaders, 2, failAt), LAMBDA h :
                    IF ~h.ok
                      THEN Outcome("Err", h.io, h.pos, h.pos, NoRequest)
                      ELSE
                        Bind(read_body(inp, h.pos, request_line.method,
                                       h.headers, h.k, failAt), LAMBDA b :
                          IF ~b.ok
                            THEN Outcome("Err", b.io, b.pos, h.pos, NoRequest)
                            ELSE Outcome("Some", "none", b.pos, h.pos,
                                   [method |-> request_line.method,
                                    target |-> request_line.target,
                                    version |-> request_line.version,
                                    headers |-> h.headers,
                                    body |-> b.body])))))

\* pub async fn read (request.rs 31-82)
read(inp, pos, failAt) ==
  IF failAt = 1
    THEN Outcome("Err", "socket", pos, pos, NoRequest)
    ELSE
      Bind(read_line(inp, pos), LAMBDA e :
        \* bytes_read == 0
        IF e - pos = 0
          THEN Outcome("None", "none", pos, pos, NoRequest)
          ELSE
            Bind(RequestLine_from_str(trim_end(SubSeq(inp, pos + 1, e))),
                 LAMBDA request_line :
              IF ~request_line.ok
                THEN Outcome("Err", "none", e, e, NoRequest)
                ELSE
                  Bind(read_headers(inp, e, NoHeaders, 2, failAt), LAMBDA h :
                    IF ~h.ok
                      THEN Outcome("Err", h.io, h.pos, h.pos, NoRequest)
                      ELSE
                        Bind(read_body(inp, h.pos, request_line.method,
                                       h.headers, h.k, failAt), LAMBDA b :
                          IF ~b.ok
                            THEN Outcome("Err", b.io, b.pos, h.pos, NoRequest)
                            ELSE Outcome("Some", "none", b.pos, h.pos,
                                   [method |-> request_line.method,
                                    target |-> request_line.target,
                                    version |-> request_line.version,
                                    headers |-> h.headers,
                                    body |-> b.body])))))

(***************************************************************************)
(* mod.rs: responses and the dispatcher.                                   *)
(***************************************************************************)
OK == <<"O","K">>
BadRequest == <<"B","a","d"," ","R","e","q","u","e","s","t">>
NotFound == <<"N","o","t"," ","F","o","u","n","d">>
ContentType == <<"c","o","n","t","e","n","t","-","t","y","p","e">>
TextPlain == <<"t","e","x","t","/","p","l","a","i","n">>
UserAgentKey == <<"u","s","e","r","-","a","g","e","n","t">>
UserAgentTarget == <<"/">> \o UserAgentKey
EchoPrefix == <<"/","e","c","h","o","/">>

\* HttpResponse::status
status(status_code, status_line) ==
  [status_code |-> status_code, status_line |-> status_line,
   headers |-> <<>>, content |-> <<>>]

\* HttpResponse::ok
ok(content_type, content) ==
  [status_code |-> 200, status_line |-> OK,
   headers |-> << <<ContentType, content_type>> >>, content |-> content]

\* impl fmt::Display for HttpRequestError, for the HttpRequestError(None)
\* every error path of the parser builds
HttpRequestError_to_string ==
  <<"H","T","T","P"," ","4","0","0"," ">> \o BadRequest

\* async fn process_request (mod.rs 143-159)
process_request(request) ==
  IF request.target = <<"/">> THEN status(200, OK)
  ELSE IF request.target = UserAgentTarget
    THEN LET ua == headers_get(request.headers, UserAgentKey) IN
         IF ua.some /\ ua.values # <<>>
           THEN ok(TextPlain, ua.values[1])
           ELSE status(400, BadRequest)
  ELSE IF starts_with(request.target, EchoPrefix)
    THEN ok(TextPlain, SubSeq(request.target, 7, Len(request.target)))
  ELSE status(404, NotFound)

NoResponse == status(0, <<>>)

\* the decimal text of a number, as format!("{}", n) writes it
RECURSIVE to_string(_)
to_string(n) ==
  IF n < 10 THEN <<Digits[n + 1]>>
  ELSE to_string(n \div 10) \o <<Digits[(n % 10) + 1]>>

\* has_content_length comparing the key as it is spelled
has_content_length_case_sensitive(response) ==
  \E i \in 1..Len(response.headers) :
    response.headers[i][1] = ContentLengthKey

\* HttpResponse::has_content_length
has_content_length(response) ==
  \E i \in 1..Len(response.headers) :
    eq_ignore_ascii_case(response.headers[i][1], ContentLengthKey)

\* format!("HTTP/1.1 {} {}\r\n", status_code, status_line)
format_status(response) ==
  <<"H","T","T","P","/","1",".","1",SP>> \o to_string(response.status_code)
    \o <<SP>> \o response.status_line \o CRLF

\* format!("{}: {}\r\n", key, value)
format_header(key, value) == key \o <<":", SP>> \o value \o CRLF

\* for (key, value) in response.headers { write_all(header) }
RECURSIVE format_headers(_)
format_headers(headers) ==
  IF headers = <<>> THEN <<>>
  ELSE format_header(headers[1][1], headers[1][2])
         \o format_headers(Tail(headers))

\* the bytes the writer's loop body writes for one response (mod.rs 48-66)
serialize(response) ==
  format_status(response)
    \o (IF ~has_content_length(response)
          THEN format_header(ContentLengthKey, to_string(Len(response.content)))
          ELSE <<>>)
    \o format_headers(response.headers)
    \o CRLF
    \o response.content

(***************************************************************************)
(* The input streams a connection is run on.                               *)
(***************************************************************************)
Version == <<"H","T","T","P","/","1",".","1">>
POST == <<"P","O","S","T">>
request_line(method, target) ==
  method \o <<SP>> \o target \o <<SP>> \o Version \o CRLF

RECURSIVE Repeat(_, _)
Repeat(s, n) == IF n = 0 THEN <<>> ELSE s \o Repeat(s, n - 1)

GetRoot == request_line(GET, <<"/">>) \o CRLF
GetEcho == request_line(GET, EchoPrefix \o <<"a">>) \o CRLF
\* scenario 5 of the tests: "BADLINE\r\n\r\n"
BadLine == <<"B","A","D","L","I","N","E">> \o CRLF
BadMessage == BadLine \o CRLF
ContentLength2 ==
  <<"C","o","n","t","e","n","t","-","L","e","n","g","t","h",":"," ","2">>
    \o CRLF
ContentLength9 == ContentLengthKey \o <<":","9">> \o CRLF
PostFile == request_line(POST, <<"/","x">>)
Hi == <<"h","i">>
GetUserAgent == request_line(GET, UserAgentTarget)
ContentLengthX == ContentLengthKey \o <<":"," ","x">> \o CRLF
\* one malformed message: a bad request line, two header lines, the blank
\* line and a body of two lines, the last one without a line end
MalformedMessage ==
  BadLine \o ContentLength2 \o ContentLength9 \o CRLF \o Hi \o CRLF \o Hi
\* three user-agent header lines: spelled differently, one whose value
\* holds a colon, one with a space before its colon
UserAgentLines ==
  <<"U","s","e","r","-","A","g","e","n","t",":"," ","a">> \o CRLF
    \o UserAgentKey \o <<":","b",":","c">> \o CRLF
    \o <<"U","S","E","R","-","A","G","E","N","T"," ",":"," ","d">> \o CRLF

Streams ==
  { <<>>,
    GetRoot,
    GetEcho \o GetRoot,
    BadMessage \o GetRoot,
    \* a POST whose body is framed by content-length, then a GET
    PostFile \o ContentLength2 \o CRLF \o Hi \o GetRoot,
    \* the same with two content-length headers: the last one counts
    PostFile \o ContentLength9 \o ContentLength2 \o CRLF \o Hi \o GetRoot,
    \* a GET that carries content-length and two body bytes
    request_line(GET, <<"/">>) \o ContentLength2 \o CRLF \o Hi \o CRLF
      \o GetRoot,
    \* a POST whose content-length exceeds what the stream holds
    PostFile \o ContentLength9 \o CRLF \o Hi,
    \* a POST with no content-length, followed by more bytes
    PostFile \o CRLF \o Hi \o GetRoot,
    \* GET /user-agent with several user-agent header lines, and with none
    GetUserAgent \o UserAgentLines \o CRLF,
    GetUserAgent \o CRLF,
    \* a GET whose first header line has no colon, then a header line and
    \* the blank line
    request_line(GET, <<"/">>) \o BadLine \o ContentLength2 \o CRLF,
    \* a POST whose content-length is not a number, with two body bytes
    PostFile \o ContentLengthX \o CRLF \o Hi }

\* streams that fill the channel: malformed lines, each answered 400 by
\* the reader, then a request and one more malformed line, or two
\* pipelined requests; and the malformed message, one line more than the
\* channel holds
FloodStreams ==
  { Repeat(BadLine, MaxBadLines) \o GetEcho \o BadLine,
    Repeat(BadLine, MaxBadLines) \o GetEcho \o GetRoot,
    MalformedMessage }

\* whether the read calls of the connection fed with inp may fail: the
\* flood streams are run on a socket whose reads do not fail
reads_may_fail(inp) == inp \in Streams

(***************************************************************************)
(* The state of one connection.                                            *)
(***************************************************************************)
VARIABLES
  input,     \* the bytes the peer sends before it closes its side
  pos,       \* BufReader<OwnedReadHalf>: bytes consumed so far
  ioErrors,  \* read calls that failed so far
  log,       \* history: the outcome of every call of read, in order, and
             \* whether it was made with the channel full and a unit in flight
  readerPc,  \* read_loop: "reading", "sending" (in tx.send of a 400), "done"
  units,     \* the tasks of read_loop's JoinSet, by the index in log of
             \* the request they handle
  waiters,   \* the channel's semaphore: producers waiting for a permit
  granted,   \* producers that were handed a permit and have not sent yet
  queue,     \* the channel: responses sent and not yet received
  enqLog,    \* history: the ids of the responses, in the order sent
  fullAt,    \* history: for a producer that found Capacity items queued,
             \* how many items the writer had received by then
  dequeued,  \* history: how many items the writer has received
  writerPc,  \* the writer task: "running", "done" (Ok), "failed" (Err)
  output,    \* the responses written and flushed to the peer, in order
  wire,      \* the bytes the peer has received on the write half
  returned,  \* handle_connection has returned
  listenerPc,   \* the task of start: "binding", "accepting", "joining", "done"
  listenerLog,  \* history: the outcomes of bind and of every accept
  result,       \* what the task of start returned: "none", "Ok", "Err"
  conns         \* the connection tasks in start's JoinSet, in accept order

\* the listener and the connections it spawned
listenerVars == <<listenerPc, listenerLog, result, conns>>

\* what no step of the connection changes: the bytes its peer sends, and
\* the listener with its other connections
fixedVars == <<input, listenerVars>>

vars ==
  <<input, pos, ioErrors, log, readerPc, units, waiters, granted, queue,
    enqLog, fullAt, dequeued, writerPc, output, wire, returned, listenerVars>>

\* the variables of the connection
connVars ==
  <<input, pos, ioErrors, log, readerPc, units, waiters, granted, queue,
    enqLog, fullAt, dequeued, writerPc, output, wire, returned>>

readerVars == <<fixedVars, pos, ioErrors, log, readerPc>>
channelVars == <<waiters, granted, queue, enqLog, fullAt>>
writerVars == <<dequeued, writerPc, output, wire>>

Range(s) == {s[i] : i \in 1..Len(s)}
Remove(s, x) == SelectSeq(s, LAMBDA y : y # x)

\* a response in the channel, tagged with the index in log of the parse
\* it answers
Item(id, response) == [id |-> id, response |-> response]

\* the receiver was dropped: the writer task ended on a write error
rx_dropped == writerPc = "failed"

\* the tasks that still own their future, and with it their Sender clone
LiveUnits == {u \in DOMAIN units : units[u].state \in {"spawned", "waiting"}}

\* sender_count when handle_connection keeps a Sender of its own
sender_count_extra_handle == 1 + Cardinality(LiveUnits)

\* the Sender handles alive: read_loop's tx and one clone per live unit
sender_count == (IF readerPc = "done" THEN 0 ELSE 1) + Cardinality(LiveUnits)

\* is_closed when only read_loop's own Sender is counted
is_closed_when_reader_exits == readerPc = "done"

\* rx.recv() yields None: every Sender is dropped (and the queue is empty)
is_closed == sender_count = 0

\* available_permits of a channel created one slot too large
available_permits_off_by_one ==
  Capacity + 1 - Len(queue) - Cardinality(granted)

\* the permits of the channel's semaphore nobody holds
available_permits == Capacity - Len(queue) - Cardinality(granted)

\* recv taking the newest item
recv_newest(q) == [item |-> q[Len(q)], rest |-> SubSeq(q, 1, Len(q) - 1)]

\* recv taking the item of the earliest request (responses resequenced)
recv_lowest_id(q) ==
  LET i == CHOOSE k \in 1..Len(q) : \A j \in 1..Len(q) : q[k].id <= q[j].id
  IN  [item |-> q[i], rest |-> SubSeq(q, 1, i - 1) \o SubSeq(q, i + 1, Len(q))]

\* rx.recv(): the oldest item
recv(q) == [item |-> Head(q), rest |-> Tail(q)]

\* Semaphore::add_permit: the permit goes to the longest waiting producer
add_permit(w, g) ==
  IF w # <<>> THEN [waiters |-> Tail(w), granted |-> g \cup {Head(w)}]
  ELSE [waiters |-> w, granted |-> g]

\* whether tx.send(...) has to wait for a permit
send_suspends == ~rx_dropped /\ available_permits <= 0

\* tx.send(response) up to its first suspension: an Err when the receiver
\* is gone, the item queued when a permit is free, else the producer
\* queues up for a permit
send(id, response) ==
  IF rx_dropped
    THEN UNCHANGED channelVars
  ELSE IF ~send_suspends
    THEN /\ queue' = Append(queue, Item(id, response))
         /\ enqLog' = Append(enqLog, id)
         /\ UNCHANGED <<waiters, granted, fullAt>>
  ELSE /\ waiters' = Append(waiters, id)
       /\ fullAt' = IF Len(queue) = Capacity
                      THEN fullAt @@ (id :> dequeued) ELSE fullAt
       /\ UNCHANGED <<granted, queue, enqLog>>

\* tx.send(response) resumed: the producer holds a permit, or the
\* receiver was dropped meanwhile and the send fails
send_resume(id, response) ==
  IF rx_dropped
    THEN UNCHANGED channelVars
    ELSE /\ queue' = Append(queue, Item(id, response))
         /\ enqLog' = Append(enqLog, id)
         /\ granted' = granted \ {id}
         /\ UNCHANGED <<waiters, fullAt>>

Init ==
  /\ input \in Streams \cup FloodStreams
  /\ pos = 0
  /\ ioErrors = 0
  /\ log = <<>>
  /\ readerPc = "reading"
  /\ units = [u \in {} |-> NoResponse]
  /\ waiters = <<>>
  /\ granted = {}
  /\ queue = <<>>
  /\ enqLog = <<>>
  /\ fullAt = [u \in {} |-> 0]
  /\ dequeued = 0
  /\ writerPc = "running"
  /\ output = <<>>
  /\ wire = <<>>
  /\ returned = FALSE
  /\ listenerPc = "accepting"
  /\ listenerLog = <<"bind_ok", "accept_ok">>
  /\ result = "none"
  /\ conns = <<>>

\* responses a dispatcher may hand to the writer: with and without
\* headers and content, and with a content-length header of their own
ContentLengthMixed ==
  <<"C","o","n","t","e","n","t","-","L","e","n","g","t","h">>
Responses ==
  { status(200, OK),
    status(404, NotFound),
    ok(TextPlain, <<"a">>),
    ok(TextPlain, Repeat(<<"a">>, 12)),
    [status_code |-> 200, status_line |-> OK,
     headers |-> << <<ContentLengthMixed, <<"1">>>> >>, content |-> <<"a">>],
    [status_code |-> 200, status_line |-> OK,
     headers |-> << <<ContentType, TextPlain>>, <<ContentLengthKey, <<"2">>>> >>,
     content |-> Hi] }

\* the writer on a channel that holds the responses of producers which
\* have all finished and dropped their Sender
WriterInit ==
  /\ input = <<>>
  /\ pos = 0
  /\ ioErrors = 0
  /\ log = <<>>
  /\ readerPc = "done"
  /\ units = [u \in {} |-> NoResponse]
  /\ waiters = <<>>
  /\ granted = {}
  /\ \E n \in 1..MaxQueued :
       \E rs \in [1..n -> Responses] :
         /\ queue = [i \in 1..n |-> Item(i, rs[i])]
         /\ enqLog = [i \in 1..n |-> i]
  /\ fullAt = [u \in {} |-> 0]
  /\ dequeued = 0
  /\ writerPc = "running"
  /\ output = <<>>
  /\ wire = <<>>
  /\ returned = FALSE
  /\ listenerPc = "accepting"
  /\ listenerLog = <<"bind_ok", "accept_ok">>
  /\ result = "none"
  /\ conns = <<>>

\* JoinSet::drop: every task that has not finished is aborted
abort_all(us) ==
  [u \in DOMAIN us |->
     IF us[u].state \in {"spawned", "waiting"}
       THEN [us[u] EXCEPT !.aborted = TRUE] ELSE us[u]]

\* ReaderRead when read_loop awaits each handling unit before it reads on
ReaderRead_awaits_unit(failAt) ==
  /\ readerPc = "reading"
  /\ LiveUnits = {}
  /\ LET o == read(input, pos, failAt)
         id == Len(log) + 1
     IN
     /\ \/ failAt = 0
        \/ /\ reads_may_fail(input)
           /\ ioErrors < MaxIOErrors
           /\ o # read(input, pos, 0)
     /\ ioErrors' = IF failAt = 0 THEN ioErrors ELSE ioErrors + 1
     /\ log' = Append(log, [kind |-> o.kind, io |-> o.io, from |-> pos,
                            pos |-> o.pos, body_at |-> o.body_at,
                            request |-> o.request,
                            busy |-> Len(queue) = Capacity /\ LiveUnits # {}])
     /\ pos' = o.pos
     /\ CASE o.kind = "Some" ->
               /\ units' = units @@
                    (id :> [state |-> "spawned", aborted |-> FALSE,
                            request |-> o.request, response |-> NoResponse])
               /\ UNCHANGED <<readerPc, channelVars>>
          [] o.kind = "None" ->
               /\ units' = abort_all(units)
               /\ readerPc' = "done"
               /\ UNCHANGED channelVars
          [] o.kind = "Err" ->
               /\ send(id, status(400, HttpRequestError_to_string))
               /\ readerPc' = IF send_suspends THEN "sending" ELSE "reading"
               /\ UNCHANGED units
  /\ UNCHANGED <<fixedVars, writerVars, returned>>

\* one iteration of read_loop's loop (mod.rs 87-104): read a request, then
\* spawn its handling unit, leave the loop, or send a 400
ReaderRead(failAt) ==
  /\ readerPc = "reading"
  /\ LET o == read(input, pos, failAt)
         id == Len(log) + 1
     IN
     /\ \/ failAt = 0
        \/ /\ reads_may_fail(input)
           /\ ioErrors < MaxIOErrors
           /\ o # read(input, pos, 0)
     /\ ioErrors' = IF failAt = 0 THEN ioErrors ELSE ioErrors + 1
     /\ log' = Append(log, [kind |-> o.kind, io |-> o.io, from |-> pos,
                            pos |-> o.pos, body_at |-> o.body_at,
                            request |-> o.request,
                            busy |-> Len(queue) = Capacity /\ LiveUnits # {}])
     /\ pos' = o.pos
     /\ CASE o.kind = "Some" ->
               /\ units' = units @@
                    (id :> [state |-> "spawned", aborted |-> FALSE,
                            request |-> o.request, response |-> NoResponse])
               /\ UNCHANGED <<readerPc, channelVars>>
          [] o.kind = "None" ->
               /\ units' = abort_all(units)
               /\ readerPc' = "done"
               /\ UNCHANGED channelVars
          [] o.kind = "Err" ->
               /\ send(id, status(400, HttpRequestError_to_string))
               /\ readerPc' = IF send_suspends THEN "sending" ELSE "reading"
               /\ UNCHANGED units
  /\ UNCHANGED <<fixedVars, writerVars, returned>>

\* read_loop resumed in tx.send(response).await of its 400 (mod.rs 101)
ReaderResume ==
  /\ readerPc = "sending"
  /\ Len(log) \in granted \/ rx_dropped
  /\ send_resume(Len(log), status(400, HttpRequestError_to_string))
  /\ readerPc' = "reading"
  /\ UNCHANGED <<fixedVars, pos, ioErrors, log, units, writerVars, returned>>

\* the first poll of a handling unit (mod.rs 91-94): the dispatcher runs
\* and the response is sent, or the unit suspends in tx.send
UnitRun(u) ==
  /\ u \in DOMAIN units
  /\ units[u].state = "spawned"
  /\ ~units[u].aborted
  /\ LET response == process_request(units[u].request) IN
     /\ send(u, response)
     /\ units' = [units EXCEPT
          ![u].state = IF send_suspends THEN "waiting" ELSE "finished",
          ![u].response = IF send_suspends THEN response ELSE NoResponse]
  /\ UNCHANGED <<readerVars, writerVars, returned>>

\* a handling unit resumed in tx.send(response).await (mod.rs 93)
UnitResume(u) ==
  /\ u \in DOMAIN units
  /\ units[u].state = "waiting"
  /\ ~units[u].aborted
  /\ u \in granted \/ rx_dropped
  /\ send_resume(u, units[u].response)
  /\ units' = [units EXCEPT ![u].state = "finished",
                            ![u].response = NoResponse]
  /\ UNCHANGED <<readerVars, writerVars, returned>>

\* an aborted task is scheduled: its future is dropped without being
\* polled again, and with it the request or response, the Sender clone
\* and the place in the semaphore
UnitDrop(u) ==
  /\ u \in DOMAIN units
  /\ units[u].state \in {"spawned", "waiting"}
  /\ units[u].aborted
  /\ units' = [units EXCEPT ![u].state = "dropped",
                            ![u].response = NoResponse]
  /\ LET p == IF u \in granted
                THEN add_permit(waiters, granted \ {u})
                ELSE [waiters |-> Remove(waiters, u), granted |-> granted]
     IN  /\ waiters' = p.waiters
         /\ granted' = p.granted
  /\ UNCHANGED <<readerVars, queue, enqLog, fullAt, writerVars, returned>>

\* one iteration of the writer's loop (mod.rs 47-68): a response is
\* received, serialized and flushed
WriterWrite ==
  /\ writerPc = "running"
  /\ queue # <<>>
  /\ LET r == recv(queue)
         p == add_permit(waiters, granted)
     IN  /\ queue' = r.rest
         /\ waiters' = p.waiters
         /\ granted' = p.granted
         /\ output' = Append(output, r.item)
         /\ wire' = wire \o serialize(r.item.response)
  /\ dequeued' = dequeued + 1
  /\ UNCHANGED <<readerVars, units, enqLog, fullAt, writerPc, returned>>

\* WriterFail when the writer ignores the error and goes on with the
\* next response
WriterFail_keeps_running ==
  /\ writerPc = "running"
  /\ queue # <<>>
  /\ \E n \in 0..MaxCut :
       wire' = wire \o SubSeq(serialize(recv(queue).item.response), 1, n)
  /\ LET p == add_permit(waiters, granted)
     IN  /\ queue' = recv(queue).rest
         /\ waiters' = p.waiters
         /\ granted' = p.granted
  /\ dequeued' = dequeued + 1
  /\ UNCHANGED <<readerVars, units, enqLog, fullAt, writerPc, output, returned>>

\* the same iteration when a write or the flush fails: the peer gets the
\* first bytes of the response at most, the task returns the error and
\* drops the receiver with all it holds
WriterFail ==
  /\ writerPc = "running"
  /\ queue # <<>>
  /\ \E n \in 0..MaxCut :
       wire' = wire \o SubSeq(serialize(recv(queue).item.response), 1, n)
  /\ writerPc' = "failed"
  /\ queue' = <<>>
  /\ waiters' = <<>>
  /\ granted' = {}
  /\ dequeued' = dequeued + 1
  /\ UNCHANGED <<readerVars, units, enqLog, fullAt, output, returned>>

\* rx.recv() yields None and the writer returns Ok(()) (mod.rs 47, 70)
WriterClose ==
  /\ writerPc = "running"
  /\ queue = <<>>
  /\ is_closed
  /\ writerPc' = "done"
  /\ UNCHANGED <<readerVars, units, channelVars, dequeued, output, wire,
                 returned>>

\* HandleConnectionReturn when the two handles are raced, not joined
HandleConnectionReturn_select ==
  /\ ~returned
  /\ readerPc = "done" \/ writerPc \in {"done", "failed"}
  /\ returned' = TRUE
  /\ UNCHANGED <<readerVars, units, channelVars, writerVars>>

\* tokio::join!(writer_handle, reader_handle) completes (mod.rs 34-36)
HandleConnectionReturn ==
  /\ ~returned
  /\ readerPc = "done"
  /\ writerPc \in {"done", "failed"}
  /\ returned' = TRUE
  /\ UNCHANGED <<readerVars, units, channelVars, writerVars>>

UnitIds == 1..(Len(log))

Reader == (\E failAt \in 0..MaxFailAt : ReaderRead(failAt)) \/ ReaderResume
Units == \E u \in UnitIds : UnitRun(u) \/ UnitResume(u) \/ UnitDrop(u)
Writer == WriterWrite \/ WriterFail \/ WriterClose

Next ==
  \/ \E failAt \in 0..MaxFailAt : ReaderRead(failAt)
  \/ ReaderResume
  \/ \E u \in UnitIds : UnitRun(u)
  \/ \E u \in UnitIds : UnitResume(u)
  \/ \E u \in UnitIds : UnitDrop(u)
  \/ WriterWrite
  \/ WriterFail
  \/ WriterClose
  \/ HandleConnectionReturn

Spec == Init /\ [][Next]_vars

\* the tokio scheduler polls every task that is ready to run, and the
\* socket takes what the writer flushes
FairSpec ==
  Spec /\ WF_vars(Reader) /\ WF_vars(Units) /\ WF_vars(WriterWrite \/ WriterClose)
       /\ WF_vars(HandleConnectionReturn)

\* the writer task and the join of handle_connection, on their own
WriterNext ==
  \/ WriterWrite
  \/ WriterFail
  \/ WriterClose
  \/ HandleConnectionReturn

WriterSpec == WriterInit /\ [][WriterNext]_vars

(***************************************************************************)
(* mod.rs: the listener task of start and the connection tasks of its      *)
(* JoinSet.  Here a connection is its two pipelines and its channel, with  *)
(* the units in flight and the responses queued counted, not spelled out.  *)
(***************************************************************************)

\* a connection right after handle_connection has started its two tasks
NewConn ==
  [reader |-> "reading", writer |-> "running", inflight |-> 0, queued |-> 0,
   parses |-> 0, errors |-> 0, result |-> "none"]

\* handle_connection passing a failure of its writer on
handle_connection_result_propagates(writer, reader) ==
  IF writer = "failed" THEN "Err" ELSE "Ok"

\* what handle_connection yields for the results of its two tasks:
\* `let _ = tokio::join!(writer_handle, reader_handle); Ok(())`
handle_connection_result(writer, reader) == "Ok"

ListenerInit ==
  /\ input = <<>>
  /\ pos = 0
  /\ ioErrors = 0
  /\ log = <<>>
  /\ readerPc = "reading"
  /\ units = [u \in {} |-> NoResponse]
  /\ waiters = <<>>
  /\ granted = {}
  /\ queue = <<>>
  /\ enqLog = <<>>
  /\ fullAt = [u \in {} |-> 0]
  /\ dequeued = 0
  /\ writerPc = "running"
  /\ output = <<>>
  /\ wire = <<>>
  /\ returned = FALSE
  /\ listenerPc = "binding"
  /\ listenerLog = <<>>
  /\ result = "none"
  /\ conns = <<>>

\* TcpListener::bind(addr).await? succeeds (mod.rs 17)
ListenerBind ==
  /\ listenerPc = "binding"
  /\ listenerPc' = "accepting"
  /\ listenerLog' = Append(listenerLog, "bind_ok")
  /\ UNCHANGED <<result, conns, connVars>>

\* TcpListener::bind(addr).await? fails: the task returns the error
ListenerBindFail ==
  /\ listenerPc = "binding"
  /\ listenerPc' = "done"
  /\ result' = "Err"
  /\ listenerLog' = Append(listenerLog, "bind_err")
  /\ UNCHANGED <<conns, connVars>>

\* listener.accept() yields Ok: handle_connection is spawned (mod.rs 20-22)
ListenerAccept ==
  /\ listenerPc = "accepting"
  /\ Len(conns) < MaxConns
  /\ conns' = Append(conns, NewConn)
  /\ listenerLog' = Append(listenerLog, "accept_ok")
  /\ UNCHANGED <<listenerPc, result, connVars>>

\* listener.accept() yields Err, for a failure of this one accept or of
\* the listening socket: `while let Ok(..)` ends the loop (mod.rs 20)
ListenerAcceptFail ==
  /\ listenerPc = "accepting"
  /\ \E kind \in {"accept_transient", "accept_fatal"} :
       listenerLog' = Append(listenerLog, kind)
  /\ listenerPc' = "joining"
  /\ UNCHANGED <<result, conns, connVars>>

\* `while tasks.join_next().await.is_some() {}` ends and the task returns
\* Ok(()) (mod.rs 24-25)
ListenerReturn ==
  /\ listenerPc = "joining"
  /\ \A c \in 1..Len(conns) : conns[c].result # "none"
  /\ listenerPc' = "done"
  /\ result' = "Ok"
  /\ UNCHANGED <<listenerLog, conns, connVars>>

\* read yields a request and its unit is spawned (mod.rs 89-95)
ConnParse(c) ==
  /\ conns[c].reader = "reading"
  /\ conns[c].parses < MaxParses
  /\ conns' = [conns EXCEPT ![c].parses = @ + 1, ![c].inflight = @ + 1]
  /\ UNCHANGED <<listenerPc, listenerLog, result, connVars>>

\* read yields Err, for a malformed request or a failed read, and the
\* reader sends a 400 (mod.rs 99-102); the send is dropped when the
\* receiver is gone
ConnReadError(c) ==
  /\ conns[c].reader = "reading"
  /\ conns[c].parses < MaxParses
  /\ conns[c].writer = "failed" \/ conns[c].queued < Capacity
  /\ conns' = [conns EXCEPT
       ![c].parses = @ + 1,
       ![c].errors = @ + 1,
       ![c].queued = IF conns[c].writer = "failed" THEN @ ELSE @ + 1]
  /\ UNCHANGED <<listenerPc, listenerLog, result, connVars>>

\* read yields None: read_loop returns and its JoinSet aborts the units
\* in flight (mod.rs 96-98, 106)
ConnEndOfStream(c) ==
  /\ conns[c].reader = "reading"
  /\ conns' = [conns EXCEPT ![c].reader = "done", ![c].inflight = 0]
  /\ UNCHANGED <<listenerPc, listenerLog, result, connVars>>

\* a unit sends its response (mod.rs 92-93)
ConnUnitSend(c) ==
  /\ conns[c].inflight > 0
  /\ conns[c].writer = "failed" \/ conns[c].queued < Capacity
  /\ conns' = [conns EXCEPT
       ![c].inflight = @ - 1,
       ![c].queued = IF conns[c].writer = "failed" THEN @ ELSE @ + 1]
  /\ UNCHANGED <<listenerPc, listenerLog, result, connVars>>

\* the writer receives and writes a response (mod.rs 47-68)
ConnWrite(c) ==
  /\ conns[c].writer = "running"
  /\ conns[c].queued > 0
  /\ conns' = [conns EXCEPT ![c].queued = @ - 1]
  /\ UNCHANGED <<listenerPc, listenerLog, result, connVars>>

\* a write fails: the writer returns the error and drops the receiver
ConnWriteFail(c) ==
  /\ conns[c].writer = "running"
  /\ conns[c].queued > 0
  /\ conns' = [conns EXCEPT ![c].writer = "failed", ![c].queued = 0]
  /\ UNCHANGED <<listenerPc, listenerLog, result, connVars>>

\* rx.recv() yields None: the writer returns Ok(()) (mod.rs 47, 70)
ConnWriterClose(c) ==
  /\ conns[c].writer = "running"
  /\ conns[c].queued = 0
  /\ conns[c].reader = "done" /\ conns[c].inflight = 0
  /\ conns' = [conns EXCEPT ![c].writer = "done"]
  /\ UNCHANGED <<listenerPc, listenerLog, result, connVars>>

\* handle_connection returns (mod.rs 34-36)
ConnReturn(c) ==
  /\ conns[c].result = "none"
  /\ conns[c].reader = "done"
  /\ conns[c].writer \in {"done", "failed"}
  /\ conns' = [conns EXCEPT
       ![c].result = handle_connection_result(conns[c].writer, "Ok")]
  /\ UNCHANGED <<listenerPc, listenerLog, result, connVars>>

ConnIds == 1..Len(conns)

ListenerNext ==
  \/ ListenerBind
  \/ ListenerBindFail
  \/ ListenerAccept
  \/ ListenerAcceptFail
  \/ ListenerReturn
  \/ \E c \in ConnIds : ConnParse(c)
  \/ \E c \in ConnIds : ConnReadError(c)
  \/ \E c \in ConnIds : ConnEndOfStream(c)
  \/ \E c \in ConnIds : ConnUnitSend(c)
  \/ \E c \in ConnIds : ConnWrite(c)
  \/ \E c \in ConnIds : ConnWriteFail(c)
  \/ \E c \in ConnIds : ConnWriterClose(c)
  \/ \E c \in ConnIds : ConnReturn(c)

ListenerSpec == ListenerInit /\ [][ListenerNext]_vars

(***************************************************************************)
(* Properties.                                                             *)
(***************************************************************************)
Written(id) == \E i \in 1..Len(output) : output[i].id = id
EnqPos(id) == CHOOSE i \in 1..Len(enqLog) : enqLog[i] = id
IsParseError(i) == log[i].kind = "Err" /\ log[i].io = "none"

\* both pipelines have terminated and no write failed
ClosedCleanly == returned /\ writerPc = "done"

\* C1: once the connection is closed and no write has failed, the response
\* of every request that was parsed successfully has been written.
C1_NoResponseLost ==
  ClosedCleanly =>
    \A u \in DOMAIN units :
      \E i \in 1..Len(output) :
        output[i] = Item(u, process_request(units[u].request))

\* C2: no handling unit is ever aborted: a spawned unit is never marked
\* for cancellation before it has finished.
C2_NoCancellation == \A u \in DOMAIN units : ~units[u].aborted

\* C3: the responses written are, in order, the first responses that were
\* put on the channel: the writer is FIFO whatever the producers did.
C3_WriterFifo ==
  /\ Len(output) <= Len(enqLog)
  /\ \A i \in 1..Len(output) : output[i].id = enqLog[i]

\* C3 witness: two responses written, the one of the later parse first.
C3_FifoWitness ==
  \E i, j \in 1..Len(output) : i < j /\ output[i].id > output[j].id

\* C4: responses of handling units are written in the order the units
\* completed their enqueue, which need not be the order of the requests.
C4_CompletionOrder ==
  \A i, j \in 1..Len(output) :
    (i < j /\ output[i].id \in DOMAIN units /\ output[j].id \in DOMAIN units)
      => EnqPos(output[i].id) < EnqPos(output[j].id)

\* C4 witness: the response of a later request is written before the
\* response of an earlier request.
C4_LaterRequestFirst ==
  \E i, j \in 1..Len(output) :
    /\ i < j
    /\ output[i].id \in DOMAIN units /\ output[j].id \in DOMAIN units
    /\ output[i].id > output[j].id

\* C4, the other execution: two pipelined requests answered in the order
\* they were parsed.
C4_RequestOrder ==
  \E i, j \in 1..Len(output) :
    /\ i < j
    /\ output[i].id \in DOMAIN units /\ output[j].id \in DOMAIN units
    /\ output[i].id < output[j].id

\* the response a suspended producer holds
HeldResponse(id) ==
  IF id \in DOMAIN units THEN units[id].response
  ELSE IF readerPc = "sending" /\ id = Len(log)
    THEN status(400, HttpRequestError_to_string)
  ELSE NoResponse

\* C5: the channel never holds more than Capacity responses; a suspended
\* producer still holds its response, which is not in the channel; and a
\* producer that found Capacity responses queued has its response queued
\* only after the writer received one more item.
C5_Backpressure ==
  /\ Len(queue) <= Capacity
  /\ \A id \in Range(waiters) \cup granted :
       /\ id \notin Range(enqLog)
       /\ HeldResponse(id) # NoResponse
  /\ \A id \in DOMAIN fullAt :
       id \in Range(enqLog) => dequeued > fullAt[id]

\* C5 witness: a producer that found the channel full was suspended and
\* has since completed its enqueue.
C5_ResumedAfterFull == \E id \in DOMAIN fullAt : id \in Range(enqLog)

\* C6: the writer has terminated normally only if read_loop has released
\* its Sender, no handling unit holds a clone, and the queue is empty.
C6_ClosureNeedsAllHandles ==
  writerPc = "done" => readerPc = "done" /\ LiveUnits = {} /\ queue = <<>>

\* C6 witness: the writer terminated normally on a connection that had
\* handling units and wrote responses.
C6_ClosedAfterUnits ==
  writerPc = "done" /\ DOMAIN units # {} /\ output # <<>>

\* C6, the other half: read_loop has returned and the queue is empty, yet
\* the writer still runs because a handling unit holds a Sender.
C6_ReaderExitNotSufficient ==
  readerPc = "done" /\ queue = <<>> /\ LiveUnits # {} /\ writerPc = "running"

\* C7: after a parse error the reader answers 400 and reads on, and a
\* well-formed request that follows is parsed, dispatched and answered:
\* on a connection closed without a write failure both the 400 and the
\* response of the later request have been written.
C7_RequestAfterErrorAnswered ==
  ClosedCleanly =>
    \A i, j \in 1..Len(log) :
      (i < j /\ IsParseError(i) /\ log[j].kind = "Some")
        => /\ \E k \in 1..Len(output) :
                output[k].id = i /\ output[k].response.status_code = 400
           /\ \E k \in 1..Len(output) :
                output[k] = Item(j, process_request(log[j].request))

\* the part of C7 that is about the reader: a parse error leaves read_loop
\* running with its 400 queued or waiting for a permit, and the next read
\* starts where the failed one stopped.
ParseErrorKeepsReading ==
  \A i \in 1..Len(log) :
    IsParseError(i) =>
      /\ i = Len(log) => readerPc \in {"reading", "sending"}
      /\ i < Len(log) => log[i + 1].from = log[i].pos
      /\ rx_dropped \/ i \in Range(enqLog) \/ i \in Range(waiters) \cup granted

\* a request parsed after a parse error on the same stream
RequestAfterParseError ==
  \E i, j \in 1..Len(log) : i < j /\ IsParseError(i) /\ log[j].kind = "Some"

\* C8: after a read call has failed with an I/O error the reader reads no
\* more and is terminated.
C8_IOErrorTerminatesReader ==
  \A i \in 1..Len(log) :
    log[i].io = "socket" => i = Len(log) /\ readerPc = "done"

\* C9: on an empty stream whose reads do not fail the first parse yields
\* None and nothing is ever enqueued or written, and the connection
\* closes; and whenever read_loop has read end of stream, both pipelines
\* terminate and handle_connection returns unless a write fails.
C9_CleanClose ==
  /\ []((input = <<>> /\ ioErrors = 0 /\ log # <<>>)
          => (log[1].kind = "None" /\ enqLog = <<>> /\ output = <<>>))
  /\ (input = <<>> /\ log = <<>>) ~> (ClosedCleanly \/ ioErrors > 0)
  /\ (readerPc = "done") ~> (ClosedCleanly \/ writerPc = "failed")

\* C9 witness: the connection on the empty stream has closed, nothing
\* was enqueued or written.
C9_EmptyStreamClosed ==
  /\ input = <<>> /\ ioErrors = 0
  /\ ClosedCleanly /\ enqLog = <<>> /\ output = <<>>

HasContentLength(i) ==
  /\ log[i].kind = "Some"
  /\ ContentLengthKey \in DOMAIN log[i].request.headers
  /\ parse_usize(log[i].request.headers[ContentLengthKey]
       [Len(log[i].request.headers[ContentLengthKey])]).ok

DeclaredLength(i) ==
  parse_usize(log[i].request.headers[ContentLengthKey]
    [Len(log[i].request.headers[ContentLengthKey])]).value

\* the request of parse i has the n bytes after its header block as its
\* body, and the next parse starts right after them
BodyIs(i, n) ==
  /\ Len(log[i].request.body) = n
  /\ log[i].request.body = SubSeq(input, log[i].body_at + 1, log[i].body_at + n)
  /\ log[i].pos = log[i].body_at + n
  /\ i < Len(log) => log[i + 1].from = log[i].body_at + n

\* C10 as claimed: every request with a content-length header, whatever
\* its method, has a body of exactly that many bytes, and the next parse
\* starts at the byte after them.
C10_BodyLengthAnyMethod ==
  \A i \in 1..Len(log) : HasContentLength(i) => BodyIs(i, DeclaredLength(i))

\* C10 amended: a request with a content-length header whose method is
\* not GET has a body of exactly as many bytes as the last value of the
\* header, and the next parse starts after them; a GET has an empty body
\* and the next parse starts right after its header block.
C10_BodyLengthUnlessGet ==
  \A i \in 1..Len(log) :
    HasContentLength(i) =>
      IF log[i].request.method # GET
        THEN BodyIs(i, DeclaredLength(i))
        ELSE BodyIs(i, 0)

\* C10 witness: a POST with two content-length headers was parsed with
\* the two bytes the last one declares, and the next request after it.
C10_PostBodyRead ==
  \E i \in 1..Len(log) :
    /\ HasContentLength(i)
    /\ log[i].request.method = POST
    /\ Len(log[i].request.headers[ContentLengthKey]) = 2
    /\ log[i].request.body = Hi
    /\ i < Len(log) /\ log[i + 1].kind = "Some"

\* what a peer reads from offset p of the bytes w: the lines up to the
\* first empty line, without their line ends, and the offset after it
RECURSIVE PeerLines(_, _, _)
PeerLines(w, p, acc) ==
  Bind(read_line(w, p), LAMBDA e :
    Bind(SubSeq(w, p + 1, e), LAMBDA line :
      IF Len(line) < 2 \/ SubSeq(line, Len(line) - 1, Len(line)) # CRLF
        THEN [ok |-> FALSE, lines |-> acc, pos |-> e]
      ELSE IF line = CRLF
        THEN [ok |-> TRUE, lines |-> acc, pos |-> e]
      ELSE PeerLines(w, e, Append(acc, SubSeq(line, 1, Len(line) - 2)))))

\* a header line names content-length, in any spelling
NamesContentLength(line) ==
  /\ split_once(line, ":").found
  /\ to_lowercase(split_once(line, ":").left) = ContentLengthKey

\* a response carries a content-length header of its own
OwnContentLength(r) ==
  \E k \in 1..Len(r.headers) : to_lowercase(r.headers[k][1]) = ContentLengthKey

\* the header lines a response's own headers are written as
OwnHeaderLines(r) ==
  [k \in 1..Len(r.headers) |-> r.headers[k][1] \o <<":", SP>> \o r.headers[k][2]]

\* the bytes of w from offset p are response r in the form the claim
\* describes; `next` is the offset after its content
WrittenAsClaimed(w, p, r) ==
  Bind(PeerLines(w, p, <<>>), LAMBDA h :
    Bind(OwnHeaderLines(r), LAMBDA own :
      [ok |->
         /\ h.ok
         /\ h.lines # <<>>
         /\ h.lines[1] = <<"H","T","T","P","/","1",".","1",SP>>
                            \o to_string(r.status_code) \o <<SP>> \o r.status_line
         /\ IF OwnContentLength(r)
              THEN Tail(h.lines) = own
              ELSE /\ Len(h.lines) = Len(own) + 2
                   /\ NamesContentLength(h.lines[2])
                   /\ split_once(h.lines[2], ":").left = ContentLengthKey
                   /\ parse_usize(trim(split_once(h.lines[2], ":").right))
                        = [ok |-> TRUE, value |-> Len(r.content)]
                   /\ SubSeq(h.lines, 3, Len(h.lines)) = own
                   /\ \A k \in 3..Len(h.lines) : ~NamesContentLength(h.lines[k])
         /\ SubSeq(w, h.pos + 1, h.pos + Len(r.content)) = r.content
         /\ h.pos + Len(r.content) <= Len(w),
       next |-> h.pos + Len(r.content)]))

\* the responses rs from the i-th on are on w from offset p, each one as
\* the claim describes
RECURSIVE AllWrittenAsClaimed(_, _, _, _)
AllWrittenAsClaimed(w, p, rs, i) ==
  IF i > Len(rs) THEN TRUE
  ELSE Bind(WrittenAsClaimed(w, p, rs[i].response), LAMBDA c :
         c.ok /\ AllWrittenAsClaimed(w, c.next, rs, i + 1))

\* C12: every response written is on the wire as status line, headers,
\* blank line, content; a response with no content-length header of its
\* own (in any spelling) has exactly one synthesized content-length line,
\* right after the status line and before its own headers, whose value is
\* the byte length of the content; a response that has one gets none.
C12_ContentLengthSynthesized == AllWrittenAsClaimed(wire, 0, output, 1)

\* C12 witness: the writer wrote a response that has no content-length
\* header and twelve bytes of content, then one with a Content-Length
\* header of its own.
C12_BothKindsWritten ==
  /\ Len(output) = 2
  /\ ~OwnContentLength(output[1].response)
  /\ Len(output[1].response.content) = 12
  /\ OwnContentLength(output[2].response)
  /\ output[2].response.headers[1][1] # ContentLengthKey

\* parse i produced a request with a method other than GET and no
\* content-length header
NoLengthBody(i) ==
  /\ log[i].kind = "Some"
  /\ log[i].request.method # GET
  /\ ContentLengthKey \notin DOMAIN log[i].request.headers

\* C11: a request with a method other than GET and no content-length
\* header has every byte after its header block as its body and leaves
\* the reader at the end of the stream; no later parse consumes a byte,
\* yields a request or fails on what it read: it yields None, unless the
\* read call itself fails.
C11_BodyToEndOfStream ==
  \A i \in 1..Len(log) :
    NoLengthBody(i) =>
      /\ log[i].request.body = SubSeq(input, log[i].body_at + 1, Len(input))
      /\ log[i].pos = Len(input)
      /\ \A j \in (i + 1)..Len(log) :
           /\ log[j].from = Len(input) /\ log[j].pos = Len(input)
           /\ log[j].kind = "None" \/ log[j].io = "socket"

\* C11 witness: a POST with no content-length took the bytes of the
\* request that followed it as its body, and the next parse yielded None.
C11_RestTakenAsBody ==
  \E i \in 1..Len(log) :
    /\ NoLengthBody(i)
    /\ log[i].request.body = Hi \o GetRoot
    /\ i < Len(log) /\ log[i + 1].kind = "None"

\* the header lines parse i read, without their line ends
RawHeaderLines(i) == Tail(PeerLines(input, log[i].from, <<>>).lines)

\* the multimap the claim describes for a list of header lines: the key
\* of a line is the text before its first colon, lowercased and trimmed,
\* its value the trimmed text after it; a key holds its values in order
ClaimedKey(line) == trim(to_lowercase(split_once(line, ":").left))
ClaimedValue(line) == trim(split_once(line, ":").right)
ClaimedHeaders(lines) ==
  [k \in {ClaimedKey(lines[n]) : n \in 1..Len(lines)} |->
     LET sel == SelectSeq(lines, LAMBDA l : ClaimedKey(l) = k)
     IN  [n \in 1..Len(sel) |-> ClaimedValue(sel[n])]]

\* the same with the key lowercased only
StoredKey(line) == to_lowercase(split_once(line, ":").left)
StoredHeaders(lines) ==
  [k \in {StoredKey(lines[n]) : n \in 1..Len(lines)} |->
     LET sel == SelectSeq(lines, LAMBDA l : StoredKey(l) = k)
     IN  [n \in 1..Len(sel) |-> ClaimedValue(sel[n])]]

\* C13: the headers of a parsed request are the multimap of its header
\* lines: each line split at its first colon, the key lowercased and
\* trimmed, the value trimmed, lines with the same key under one key with
\* their values in arrival order.
C13_HeaderMultimap ==
  \A i \in 1..Len(log) :
    log[i].kind = "Some"
      => log[i].request.headers = ClaimedHeaders(RawHeaderLines(i))

\* the part of C13 that holds: the same multimap with keys that are
\* lowercased and not trimmed.
HeadersLowercasedOnly ==
  \A i \in 1..Len(log) :
    log[i].kind = "Some"
      => log[i].request.headers = StoredHeaders(RawHeaderLines(i))

\* C14: the response written for a GET /user-agent request is 200 with
\* the last user-agent value as its content when the request has a
\* user-agent header, and 400 when it has none.
C14_LastUserAgent ==
  \A k \in 1..Len(output) :
    (/\ output[k].id \in DOMAIN units
     /\ units[output[k].id].request.method = GET
     /\ units[output[k].id].request.target = UserAgentTarget)
      => LET h == units[output[k].id].request.headers
             r == output[k].response
         IN  IF UserAgentKey \in DOMAIN h
               THEN /\ r.status_code = 200
                    /\ r.content = h[UserAgentKey][Len(h[UserAgentKey])]
               ELSE r.status_code = 400

\* the part of C14 that holds: 400 when there is no user-agent header,
\* 200 with the first user-agent value when there is one.
FirstUserAgent ==
  \A k \in 1..Len(output) :
    (/\ output[k].id \in DOMAIN units
     /\ units[output[k].id].request.target = UserAgentTarget)
      => LET h == units[output[k].id].request.headers
             r == output[k].response
         IN  IF UserAgentKey \in DOMAIN h
               THEN r.status_code = 200 /\ r.content = h[UserAgentKey][1]
               ELSE r.status_code = 400

\* C18: once a write has failed the writer stays terminated, writes and
\* receives nothing more and every later enqueue is dropped; the failure
\* itself changes nothing of the reader or its units, and read_loop
\* terminates only by reading end of stream, which it goes on to do;
\* handle_connection returns only after both tasks have terminated, and
\* it does return.
C18_WriteFailureEndsWriterOnly ==
  /\ [][writerPc = "failed"
         => /\ writerPc' = "failed"
            /\ wire' = wire /\ output' = output /\ dequeued' = dequeued
            /\ queue' = <<>> /\ enqLog' = enqLog]_vars
  /\ [][(writerPc # "failed" /\ writerPc' = "failed")
         => UNCHANGED <<readerVars, units>>]_vars
  /\ [][(readerPc # "done" /\ readerPc' = "done")
         => /\ Len(log') = Len(log) + 1
            /\ log'[Len(log')].kind = "None"]_vars
  /\ [](returned => readerPc = "done" /\ writerPc \in {"done", "failed"})
  /\ (writerPc = "failed") ~> (readerPc = "done" /\ returned)

\* C18 witness: after the write failure the reader answered a malformed
\* line, the enqueue of that 400 failed and was ignored, the reader read
\* on to the end of the stream, and handle_connection returned.
C18_ReaderOutlivesWriter ==
  /\ writerPc = "failed" /\ returned
  /\ \E j \in 1..(Len(log) - 1) :
       log[j].kind = "Err" /\ j \notin Range(enqLog)

\* C19: whenever read_loop is at the top of its loop it can read, whatever
\* the handling units and the channel are doing; and right after a
\* request was parsed read_loop is at the top of its loop again, the unit
\* of that request spawned.
C19_ParsingDecoupled ==
  /\ readerPc = "reading" => ENABLED ReaderRead(0)
  /\ (log # <<>> /\ log[Len(log)].kind = "Some")
       => readerPc = "reading" /\ Len(log) \in DOMAIN units

\* C19 witness: a request was parsed while the channel held Capacity
\* responses and the unit of the request before it had not completed, and
\* both units are in flight.
C19_ParsedWhileFull ==
  \E i \in 2..Len(log) :
    /\ log[i].kind = "Some" /\ log[i].busy
    /\ log[i - 1].kind = "Some"
    /\ {i - 1, i} \subseteq LiveUnits

\* the response a producer made for parse id
ResponseOf(id) ==
  IF id \in DOMAIN units THEN process_request(units[id].request)
  ELSE status(400, HttpRequestError_to_string)

\* the bytes of the responses out, each one whole, one after the other
RECURSIVE WholeResponses(_)
WholeResponses(out) ==
  IF out = <<>> THEN <<>>
  ELSE serialize(out[1].response) \o WholeResponses(Tail(out))

\* C20: the bytes on the wire are the responses written, each one whole,
\* in the order written, followed by nothing unless a write failed, and
\* then by a proper prefix of the response that was being written.
C20_NoInterleaving ==
  Bind(WholeResponses(output), LAMBDA whole :
    /\ Len(wire) >= Len(whole)
    /\ SubSeq(wire, 1, Len(whole)) = whole
    /\ Bind(SubSeq(wire, Len(whole) + 1, Len(wire)), LAMBDA rest :
         IF writerPc = "failed"
           THEN /\ Len(enqLog) > Len(output)
                /\ Bind(serialize(ResponseOf(enqLog[Len(output) + 1])),
                        LAMBDA cut :
                          Len(rest) < Len(cut)
                            /\ rest = SubSeq(cut, 1, Len(rest)))
           ELSE rest = <<>>))

\* C20 witness: a 400 of the reader and the responses of two units were
\* written, a later parse's before an earlier one's, and the write of
\* the next response failed after its first byte.
C20_ThreeWrittenOneCut ==
  /\ Len(output) >= 3
  /\ \E i, j \in 1..Len(output) : i < j /\ output[i].id > output[j].id
  /\ \E i \in 1..Len(output) : output[i].id \notin DOMAIN units
  /\ writerPc = "failed"
  /\ Len(wire) > Len(WholeResponses(output))

\* C15: an accept that failed without the listening socket being lost
\* leaves the listener in its accept loop: it accepts again.
C15_AcceptLoopSurvives ==
  \A i \in 1..Len(listenerLog) :
    listenerLog[i] = "accept_transient" => listenerPc = "accepting"

\* C16: when the listener has stopped on a bind error or an accept error,
\* the result of its task is an Err.
C16_ErrorSurfaced ==
  (/\ listenerPc = "done"
   /\ listenerLog # <<>>
   /\ listenerLog[Len(listenerLog)]
        \in {"bind_err", "accept_transient", "accept_fatal"})
    => result = "Err"

\* the part of C16 that holds: a bind error is the result of the task.
BindErrorSurfaced ==
  (listenerLog # <<>> /\ listenerLog[Len(listenerLog)] = "bind_err")
    => listenerPc = "done" /\ result = "Err"

\* C17: a step of one connection (a parse error or failed read answered
\* 400, a failed write, or any other) changes no other connection and
\* changes nothing of the listener, which leaves its accept loop only on
\* an outcome of accept; and every connection that returned yielded
\* Ok(()).
C17_FailureIsolation ==
  /\ [][\A c, d \in 1..Len(conns) :
          (c # d /\ conns'[c] # conns[c]) => conns'[d] = conns[d]]_vars
  /\ [][(\E c \in 1..Len(conns) : conns'[c] # conns[c])
          => UNCHANGED <<listenerPc, listenerLog, result>>]_vars
  /\ [][(listenerPc = "accepting" /\ listenerPc' # "accepting")
          => listenerLog' # listenerLog /\ conns' = conns]_vars
  /\ [](\A c \in 1..Len(conns) : conns[c].result \in {"none", "Ok"})

\* C17 witness: the first connection answered a bad request, had a write
\* fail and returned; the second, accepted by the same listener, is still
\* reading and writing, and the listener is still accepting.
C17_OneFailedOthersRun ==
  /\ Len(conns) >= 2
  /\ conns[1].errors > 0 /\ conns[1].writer = "failed"
  /\ conns[1].result = "Ok"
  /\ conns[2].reader = "reading" /\ conns[2].writer = "running"
  /\ conns[2].queued > 0
  /\ listenerPc = "accepting"

\* the lines of the input as the peer sent them: the offset after the
\* line that starts at offset p, and that line with its line end
LineEnd(p) ==
  IF \E q \in (p + 1)..Len(input) : input[q] = LF
    THEN CHOOSE q \in (p + 1)..Len(input) :
           input[q] = LF /\ \A r \in (p + 1)..(q - 1) : input[r] # LF
    ELSE Len(input)
Line(p) == SubSeq(input, p + 1, LineEnd(p))

\* the offset at which the line that ends at offset p starts, for a parse
\* that started at offset f
LineStartOf(f, p) ==
  CHOOSE s \in f..(p - 1) :
    (s = f \/ input[s] = LF) /\ \A r \in (s + 1)..(p - 1) : input[r] # LF

\* what makes a line well-formed as a request line and as a header line
SpacesOf(l) == Cardinality({k \in 1..Len(l) : l[k] = SP})
IsRequestLine(l) == SpacesOf(trim_end(l)) >= 2
IsBlank(l) == \A k \in 1..Len(l) : is_whitespace(l[k])
HasColon(l) == \E k \in 1..Len(l) : l[k] = ":"

\* the offsets at which the header lines before offset s start, for a
\* parse that started at offset f
HeaderStarts(f, s) == {h \in LineEnd(f)..(s - 1) : input[h] = LF}

\* parse i stopped at the end of the first line that is in error and
\* consumed nothing after it: its request line, a header line without a
\* colon, or the blank line of a header block that gives a content-length
DetectedOnLastLine(i) ==
  LET f == log[i].from
      p == log[i].pos
      s == LineStartOf(f, p)
  IN  /\ p > f
      /\ p = Len(input) \/ input[p] = LF
      /\ p = LineEnd(s)
      /\ s = f => ~IsRequestLine(Line(f))
      /\ s > f =>
           /\ IsRequestLine(Line(f))
           /\ \A h \in HeaderStarts(f, s) :
                ~IsBlank(Line(h)) /\ HasColon(Line(h))
           /\ IsBlank(Line(s)) \/ ~HasColon(Line(s))
           /\ IsBlank(Line(s)) =>
                \E h \in HeaderStarts(f, s) :
                  NamesContentLength(trim_end(Line(h)))

\* the parse after parse i starts at the line after the one parse i
\* stopped on and takes it as a request line, unless its read call fails
NextLineIsRequestLine(i) ==
  LET p == log[i].pos
      n == log[i + 1]
  IN  /\ n.from = p
      /\ n.io # "socket" =>
           IF p = Len(input) THEN n.kind = "None"
           ELSE IF IsRequestLine(Line(p))
             THEN n.kind = "Some" \/ n.pos > LineEnd(p)
             ELSE n.kind = "Err" /\ n.io = "none" /\ n.pos = LineEnd(p)

\* C21: a parse error consumes the input up to and including the line on
\* which it was detected and no further; the next parse starts at the
\* following line and takes it as a request line, so a following line
\* that is no request line is answered 400 in its turn; and the reader
\* reads on only after its 400 was enqueued (or its send failed because
\* the writer is gone), the 400s of the reader being enqueued in the order
\* of their lines.
C21_NoResynchronisation ==
  /\ \A i \in 1..Len(log) :
       IsParseError(i) =>
         /\ DetectedOnLastLine(i)
         /\ i < Len(log) =>
              /\ NextLineIsRequestLine(i)
              /\ i \in Range(enqLog) \/ rx_dropped
         /\ (i \notin Range(enqLog) /\ ~rx_dropped) =>
              /\ i = Len(log)
              /\ readerPc = "sending"
  /\ \A i, j \in 1..Len(log) :
       (/\ i < j /\ IsParseError(i) /\ IsParseError(j)
        /\ i \in Range(enqLog) /\ j \in Range(enqLog))
         => EnqPos(i) < EnqPos(j)

\* C21 witness: each of the six lines of the malformed message (request
\* line, header lines, blank line, body lines) was answered 400 by a
\* parse of its own, the sixth 400 found the channel full, was enqueued
\* after the reader had waited, and only then the reader read end of
\* stream.
C21_EveryLineAnswered ==
  /\ input = MalformedMessage
  /\ Len(log) = 7
  /\ \A i \in 1..6 : IsParseError(i) /\ log[i].pos = LineEnd(log[i].from)
  /\ log[7].kind = "None"
  /\ 6 \in DOMAIN fullAt
  /\ enqLog = <<1, 2, 3, 4, 5, 6>>

=============================================================================
